---- MODULE Spec2Model ----
(***************************************************************************)
(* Model of net/colo-proxy.c: the COLO proxy net filter.                   *)
(*                                                                         *)
(* The model follows ONE colo-proxy filter instance (one COLOProxyState)   *)
(* together with the file's globals (colo_do_checkpoint, colo_conn_hash),  *)
(* the stream socket that connects it to the peer engine, and the          *)
(* comparison thread(s) it has created.  Other colo-proxy instances of the *)
(* same process appear only through what they do to the globals.           *)
(*                                                                         *)
(* Main-loop code (setup, start, stop, property setters, fd callbacks,     *)
(* receive_iov) runs on one thread: main_pc says where that thread is.     *)
(* colo_proxy_stop_one is cut at the two points where the comparison       *)
(* thread can observe it: after the store to s->status and before the      *)
(* join.  A failed assert() ends the process: the model takes no step for  *)
(* a call that fails one.                                                  *)
(*                                                                         *)
(* Functions this file calls but does not define (the comparison thread,   *)
(* colo_proxy_enqueue_secondary_packet, the packet classifier) follow the  *)
(* design description of the engine.                                       *)
(***************************************************************************)
EXTENDS Integers, Sequences, FiniteSets, TLC

(***************************************************************************)
(* Bounds of the model.                                                    *)
(***************************************************************************)
\* successful colo_proxy_start calls in one behaviour
MaxStarts == 2
\* frames put on a stream by colo_proxy_sock_send in one behaviour
MaxFrames == 2
\* receive-side frame limit NET_BUFSIZE (69632 in include/net/net.h),
\* scaled down so that frames at and around the limit are reachable
NET_BUFSIZE == 3

(***************************************************************************)
(* Program constants.                                                      *)
(***************************************************************************)
\* enum { COLO_PROXY_NONE, COLO_PROXY_RUNNING, COLO_PROXY_DONE }
COLO_PROXY_NONE == 0
COLO_PROXY_RUNNING == 1
COLO_PROXY_DONE == 2
\* COLOMode values passed to start/stop and stored in colo_mode
COLO_MODE_PRIMARY == 1
COLO_MODE_SECONDARY == 2
\* sizeof(ssize_t): width of the length prefix (LP64 host)
SIZE_LEN == 8
\* lowest descriptor number the process hands out (0, 1, 2 are stdio)
FirstFd == 3
\* shortest buffer from which a flow key can be taken (scaled header length)
MinHdrLen == 2

Modes == {COLO_MODE_PRIMARY, COLO_MODE_SECONDARY}
\* payload byte values (0xAA); 0 is what g_malloc0 leaves in unread buffer
\* space, and the bytes of a length prefix are below NET_BUFSIZE
Bytes == {170}
ThreadIds == 1..MaxStarts

\* buffers handed to colo_proxy_sock_send / colo_proxy_receive_iov: the
\* empty one and, for every length up to the receive limit, one buffer per
\* byte value
Buffers == {<< >>} \cup {[i \in 1..n |-> b] : n \in 1..NET_BUFSIZE, b \in Bytes}

VARIABLES
    colo_mode,          \* s->colo_mode
    status,             \* s->status
    sockfd,             \* s->sockfd
    need_compare_ev,    \* s->need_compare_ev: TRUE = set
    thread,             \* s->thread: id of the thread the handle names, 0 = none
    tpc,                \* position of every comparison thread created so far
    colo_do_checkpoint, \* static bool colo_do_checkpoint
    colo_conn_hash,     \* GHashTable *colo_conn_hash: key -> Connection
    incoming_queue,     \* packets sent to s->incoming_queue on this connection
    fds_open,           \* descriptors this engine opened and has not closed
    fd_handlers,        \* descriptors with colo_proxy_sock_receive registered
    conn,               \* the stream connection behind sockfd: none / up / lost
    wire,               \* bytes written by the peer and not yet read here
    sent,               \* payloads the peer's colo_proxy_sock_send accepted
    delivered,          \* payloads colo_proxy_sock_receive passed on
    nframes,            \* frames colo_proxy_sock_send has put on a stream
    nstarts,            \* successful starts so far
    main_pc,            \* idle / stop_signal / stop_join / finalized
    last_ret            \* <<function, value>> of the last call that returned
                        \* a value: colo_proxy_start, colo_proxy_sock_send,
                        \* colo_proxy_receive_iov, colo_proxy_query_checkpoint
VARIABLES
    key_a, key_b,       \* two ConnectionKeys handed to the registry's callbacks
    hash_a, hash_b,     \* connection_key_hash of each, << >> = not computed
    equal_ret           \* connection_key_equal(key_a, key_b), -1 = not called

key_vars == << key_a, key_b, hash_a, hash_b, equal_ret >>

proxy_vars == << colo_mode, status, sockfd, need_compare_ev, thread, tpc,
                 colo_do_checkpoint, colo_conn_hash, incoming_queue, fds_open,
                 fd_handlers, conn, wire, sent, delivered, nframes, nstarts,
                 main_pc, last_ret >>

vars == << proxy_vars, key_vars >>

\* fields of the instance and of the process that only main-loop code writes
engine_vars == << colo_mode, status, sockfd, thread, fds_open, fd_handlers,
                  nstarts >>
stream_vars == << conn, wire, sent, delivered, nframes >>
queue_vars == << colo_conn_hash, incoming_queue >>

(***************************************************************************)
(* Helpers.                                                                *)
(***************************************************************************)
RECURSIVE Zeros(_)
Zeros(n) == IF n <= 0 THEN << >> ELSE <<0>> \o Zeros(n - 1)

Take(s, n) == SubSeq(s, 1, IF n < Len(s) THEN n ELSE Len(s))
Drop(s, n) == SubSeq(s, (IF n < Len(s) THEN n ELSE Len(s)) + 1, Len(s))

\* the lowest descriptor number not in use, as open()/socket()/accept() pick it
RECURSIVE LowestFree(_, _)
LowestFree(used, n) == IF n \in used THEN LowestFree(used, n + 1) ELSE n

\* iov_size(iov, iovcnt): the number of bytes of the buffer
iov_size(buf) == Len(buf)

\* a ssize_t stored in native (little-endian) byte order, as iov_send of
\* &size, sizeof(size) puts it on the stream
EncodeLen(n) ==
    << n % 256, (n \div 256) % 256, (n \div 65536) % 256 >> \o Zeros(SIZE_LEN - 3)

\* the ssize_t that SIZE_LEN stream bytes read into &len give.  Values of
\* 2^24 and above are represented by 2^24 and negative ones by -1: the code
\* only compares len with 0 and with NET_BUFSIZE.
DecodeLen(b) ==
    IF b[SIZE_LEN] >= 128 THEN -1
    ELSE IF \E i \in 4..SIZE_LEN : b[i] # 0 THEN 16777216
    ELSE b[1] + 256 * b[2] + 65536 * b[3]

\* the frame colo_proxy_sock_send writes for a payload
Frame(buf) == EncodeLen(iov_size(buf)) \o buf

RECURSIVE Stream(_)
Stream(ps) == IF ps = << >> THEN << >> ELSE Frame(Head(ps)) \o Stream(Tail(ps))

IsSuffix(s, t) == Len(s) <= Len(t) /\ s = SubSeq(t, Len(t) - Len(s) + 1, Len(t))

EmptyHash == [k \in {} |-> 0]

(***************************************************************************)
(* ConnectionKey, connection_key_equal and connection_key_hash.  A uint32_t *)
(* is the sequence of its 32 bits, lowest first, so that the arithmetic of *)
(* the hash wraps as in C.  An address is the 4 bytes in_addr holds in     *)
(* memory; the host is little-endian.                                      *)
(***************************************************************************)
\* number of addresses and of ports the keys are drawn from
NumAddrs == 2
NumPorts == 2

Addrs == {<<10, 0, 0, i>> : i \in 1..NumAddrs}
Ports == {65535 \div i : i \in 1..NumPorts}
\* IPPROTO_TCP, IPPROTO_UDP
Protos == {6, 17}
ConnectionKey ==
    [src : Addrs, dst : Addrs, src_port : Ports, dst_port : Ports,
     ip_proto : Protos]

\* the bytes of a uint16_t and of a uint8_t in memory
U16Bytes(n) == << n % 256, n \div 256 >>
U8Bytes(n) == << n >>

\* the object representation of the packed struct, field after field
KeyBytes(key) ==
    key.src \o key.dst \o U16Bytes(key.src_port) \o U16Bytes(key.dst_port)
        \o U8Bytes(key.ip_proto)

\* sizeof(ConnectionKey)
sizeof_ConnectionKey == 4 + 4 + 2 + 2 + 1

\* memcmp(s1, s2, n): 0 when the first n bytes agree, else the sign of the
\* first difference
RECURSIVE memcmp(_, _, _)
memcmp(s1, s2, n) ==
    IF n = 0 THEN 0
    ELSE IF Head(s1) # Head(s2)
    THEN (IF Head(s1) < Head(s2) THEN -1 ELSE 1)
    ELSE memcmp(Tail(s1), Tail(s2), n - 1)

\* connection_key_equal that also accepts the key of the opposite direction
connection_key_equal_unordered(key1, key2) ==
    \/ memcmp(KeyBytes(key1), KeyBytes(key2), sizeof_ConnectionKey) = 0
    \/ memcmp(KeyBytes(key1),
              KeyBytes([key2 EXCEPT !.src = key2.dst, !.dst = key2.src,
                                    !.src_port = key2.dst_port,
                                    !.dst_port = key2.src_port]),
              sizeof_ConnectionKey) = 0

connection_key_equal(key1, key2) ==
    memcmp(KeyBytes(key1), KeyBytes(key2), sizeof_ConnectionKey) = 0

WordBits == 1..32
\* a word given bit by bit, as the tuple of its bits
Word(f) == f \o << >>
\* the uint32_t whose little-endian bytes are b
U32FromBytes(b) ==
    Word([i \in WordBits |->
             (b[((i - 1) \div 8) + 1] \div (2 ^ ((i - 1) % 8))) % 2])
\* the uint32_t of a value below 2^24
U32(n) == U32FromBytes(<< n % 256, (n \div 256) % 256, n \div 65536, 0 >>)

RECURSIVE AddFrom(_, _, _, _)
AddFrom(x, y, i, carry) ==
    IF i > 32 THEN << >>
    ELSE << (x[i] + y[i] + carry) % 2 >>
             \o AddFrom(x, y, i + 1, (x[i] + y[i] + carry) \div 2)
Add32(x, y) == AddFrom(x, y, 1, 0)
Not32(x) == Word([i \in WordBits |-> 1 - x[i]])
Sub32(x, y) == AddFrom(x, Not32(y), 1, 1)
Xor32(x, y) == Word([i \in WordBits |-> (x[i] + y[i]) % 2])
Or32(x, y) == Word([i \in WordBits |-> IF x[i] + y[i] > 0 THEN 1 ELSE 0])
Shl32(x, k) == Word([i \in WordBits |-> IF i > k THEN x[i - k] ELSE 0])
rol32(x, k) == Word([i \in WordBits |-> x[((i - 1 - k + 32) % 32) + 1]])

\* 0xdeadbeef
JHASH_INITVAL == U32FromBytes(<< 239, 190, 173, 222 >>)

__jhash_mix(a0, b0, c0) ==
    LET a1 == Xor32(Sub32(a0, c0), rol32(c0, 4))
        c1 == Add32(c0, b0)
        b1 == Xor32(Sub32(b0, a1), rol32(a1, 6))
        a2 == Add32(a1, c1)
        c2 == Xor32(Sub32(c1, b1), rol32(b1, 8))
        b2 == Add32(b1, a2)
        a3 == Xor32(Sub32(a2, c2), rol32(c2, 16))
        c3 == Add32(c2, b2)
        b3 == Xor32(Sub32(b2, a3), rol32(a3, 19))
        a4 == Add32(a3, c3)
        c4 == Xor32(Sub32(c3, b3), rol32(b3, 4))
        b4 == Add32(b3, a4)
    IN  << a4, b4, c4 >>

__jhash_final(a0, b0, c0) ==
    LET c1 == Sub32(Xor32(c0, b0), rol32(b0, 14))
        a1 == Sub32(Xor32(a0, c1), rol32(c1, 11))
        b1 == Sub32(Xor32(b0, a1), rol32(a1, 25))
        c2 == Sub32(Xor32(c1, b1), rol32(b1, 16))
        a2 == Sub32(Xor32(a1, c2), rol32(c2, 4))
        b2 == Sub32(Xor32(b1, a2), rol32(a2, 14))
        c3 == Sub32(Xor32(c2, b2), rol32(b2, 24))
    IN  << a2, b2, c3 >>

\* the shift of dst_port is done in int; the build (-fwrapv) gives the bit
\* pattern also when it reaches the sign bit
connection_key_hash(key) ==
    LET init == Add32(JHASH_INITVAL, U32(sizeof_ConnectionKey))
        a == Add32(init, U32FromBytes(key.src))
        b == Add32(init, U32FromBytes(key.dst))
        c == Add32(init, Or32(U32(key.src_port), Shl32(U32(key.dst_port), 16)))
        m == __jhash_mix(a, b, c)
        f == __jhash_final(Add32(m[1], U32(key.ip_proto)), m[2], m[3])
    IN  f[3]

\* no key is being looked up
KeysIdle ==
    /\ key_a = [src |-> <<10, 0, 0, 1>>, dst |-> <<10, 0, 0, 1>>,
                src_port |-> 65535, dst_port |-> 65535, ip_proto |-> 6]
    /\ key_b = key_a
    /\ hash_a = << >>
    /\ hash_b = << >>
    /\ equal_ret = -1

\* the followed instance and the globals after colo_proxy_setup
EngineInit ==
    /\ colo_mode \in Modes
    /\ status = COLO_PROXY_NONE
    /\ sockfd = -1
    /\ need_compare_ev = FALSE
    /\ thread = 0
    /\ tpc = [i \in ThreadIds |-> "none"]
    /\ colo_do_checkpoint = FALSE
    /\ colo_conn_hash = EmptyHash
    /\ incoming_queue = << >>
    /\ fds_open = {}
    /\ fd_handlers = {}
    /\ conn = "none"
    /\ wire = << >>
    /\ sent = << >>
    /\ delivered = << >>
    /\ nframes = 0
    /\ nstarts = 0
    /\ main_pc = "idle"
    /\ last_ret = <<"none", 0>>

Init == EngineInit /\ KeysIdle

MainIdle == main_pc = "idle"

(***************************************************************************)
(* Flow classification and the registry.  colo_proxy_enqueue_secondary_    *)
(* packet, colo_proxy_compare_thread and the packet parser are called by   *)
(* this file but defined elsewhere; they follow the design description:    *)
(* a buffer shorter than the minimum header has no flow key, a flow is     *)
(* created on its first packet, each side's packets queue in arrival order *)
(* and the task raises the checkpoint flag on a head mismatch or when a    *)
(* queue outgrows the backlog limit.                                       *)
(***************************************************************************)
\* longest backlog one side of a flow may build up before a checkpoint
MaxQueueDepth == MaxFrames - 1

HasFlowKey(buf) == Len(buf) >= MinHdrLen
FlowKey(buf) == buf[1]

NewConnection == [primary_list |-> << >>, secondary_list |-> << >>]

lookup_or_create(hash, key) ==
    IF key \in DOMAIN hash THEN hash
    ELSE [k \in DOMAIN hash \cup {key} |->
             IF k = key THEN NewConnection ELSE hash[k]]

enqueue_secondary(hash, buf) ==
    LET h == lookup_or_create(hash, FlowKey(buf))
    IN  [h EXCEPT ![FlowKey(buf)].secondary_list = Append(@, buf)]

RECURSIVE DrainConn(_)
DrainConn(c) ==
    IF /\ c.primary_list # << >>
       /\ c.secondary_list # << >>
       /\ Head(c.primary_list) = Head(c.secondary_list)
    THEN DrainConn([primary_list |-> Tail(c.primary_list),
                    secondary_list |-> Tail(c.secondary_list)])
    ELSE c

Diverged(c) ==
    \/ c.primary_list # << >> /\ c.secondary_list # << >>
    \/ Len(c.primary_list) > MaxQueueDepth
    \/ Len(c.secondary_list) > MaxQueueDepth

\* colo_proxy_notify_checkpoint(): the value colo_do_checkpoint has afterwards
colo_proxy_notify_checkpoint == TRUE

(***************************************************************************)
(* colo_proxy_setup of ANOTHER colo-proxy filter instance created in the   *)
(* same process (the followed instance was set up before Init).  Its own   *)
(* fields are not part of the state; the globals it resets are.            *)
(***************************************************************************)
colo_proxy_setup(addr_set, direction_all) ==
    /\ MainIdle
    /\ IF ~addr_set \/ ~direction_all
       THEN UNCHANGED << colo_do_checkpoint, colo_conn_hash >>
       ELSE /\ colo_do_checkpoint' = FALSE
            /\ colo_conn_hash' = EmptyHash
    /\ UNCHANGED << engine_vars, stream_vars, incoming_queue, need_compare_ev,
                    tpc, main_pc, last_ret >>
    /\ UNCHANGED key_vars

\* the "mode" property setter
colo_proxy_set_mode(mode) ==
    /\ MainIdle
    /\ colo_mode' = mode
    /\ UNCHANGED << status, sockfd, need_compare_ev, thread, tpc,
                    colo_do_checkpoint, queue_vars, fds_open, fd_handlers,
                    stream_vars, nstarts, main_pc, last_ret >>
    /\ UNCHANGED key_vars

(***************************************************************************)
(* colo_proxy_start(mode) -> colo_proxy_start_one on the instance.         *)
(* env is what the network does: "ok", "connect_fail" (inet_connect < 0),  *)
(* "listen_fail" (inet_listen < 0), "accept_fail" (qemu_accept < 0).       *)
(***************************************************************************)
\* a new stream connection replaces the one the model followed
NewStream ==
    /\ conn' = "up"
    /\ wire' = << >>
    /\ sent' = << >>
    /\ delivered' = << >>
    /\ incoming_queue' = << >>
    /\ UNCHANGED nframes

\* closesocket(s->sockfd) ends the connection; what was not read is gone
EndStream ==
    /\ conn' = "none"
    /\ wire' = << >>
    /\ sent' = << >>
    /\ delivered' = << >>
    /\ incoming_queue' = << >>

\* colo_proxy_connect succeeded: s->sockfd = sock, handler registered
colo_proxy_connect ==
    LET sock == LowestFree(fds_open, FirstFd)
    IN  /\ sockfd' = sock
        /\ fds_open' = fds_open \cup {sock}
        /\ fd_handlers' = fd_handlers \cup {sock}
        /\ NewStream

\* colo_wait_incoming succeeded: the listening socket is closed again and
\* the accepted socket becomes s->sockfd, handler registered
colo_wait_incoming ==
    LET fd == LowestFree(fds_open, FirstFd)
        accept_sock == LowestFree(fds_open \cup {fd}, FirstFd)
    IN  /\ sockfd' = accept_sock
        /\ fds_open' = fds_open \cup {accept_sock}
        /\ fd_handlers' = fd_handlers \cup {accept_sock}
        /\ NewStream

\* qemu_thread_create(&s->thread, ..., colo_proxy_compare_thread, s, JOINABLE)
qemu_thread_create ==
    /\ thread' = nstarts + 1
    /\ tpc' = [tpc EXCEPT ![nstarts + 1] = "check"]

\* assert(s->colo_mode == mode): a call with another mode ends the process,
\* the model takes no step for it
AssertMode(mode) == colo_mode = mode

StartFailed ==
    /\ last_ret' = <<"colo_proxy_start", -1>>
    /\ UNCHANGED << colo_mode, status, sockfd, thread, tpc, fds_open,
                    fd_handlers, stream_vars, incoming_queue, nstarts >>

colo_proxy_start(mode, env) ==
    /\ MainIdle
    /\ AssertMode(mode)
    /\ IF colo_mode = COLO_MODE_PRIMARY
       THEN /\ env \in {"ok", "connect_fail"}
            /\ IF env = "connect_fail"
               THEN StartFailed
               ELSE /\ nstarts < MaxStarts
                    /\ colo_proxy_connect
                    /\ status' = COLO_PROXY_RUNNING
                    /\ qemu_thread_create
                    /\ nstarts' = nstarts + 1
                    /\ last_ret' = <<"colo_proxy_start", 0>>
                    /\ UNCHANGED << colo_mode >>
       ELSE /\ env \in {"ok", "listen_fail", "accept_fail"}
            /\ IF env # "ok"
               THEN StartFailed
               ELSE /\ nstarts < MaxStarts
                    /\ colo_wait_incoming
                    /\ status' = COLO_PROXY_RUNNING
                    /\ nstarts' = nstarts + 1
                    /\ last_ret' = <<"colo_proxy_start", 0>>
                    /\ UNCHANGED << colo_mode, thread, tpc >>
    /\ UNCHANGED << need_compare_ev, colo_do_checkpoint, colo_conn_hash,
                    main_pc >>
    /\ UNCHANGED key_vars

(***************************************************************************)
(* colo_proxy_stop(mode) -> colo_proxy_stop_one on the instance, in three  *)
(* steps: the store to status and the socket teardown; the wake-up of the  *)
(* comparison thread; the join.                                            *)
(***************************************************************************)
colo_proxy_stop(mode) ==
    /\ MainIdle
    /\ AssertMode(mode)
    /\ status' = COLO_PROXY_DONE
    /\ IF sockfd >= 0
       THEN /\ fd_handlers' = fd_handlers \ {sockfd}
            /\ fds_open' = fds_open \ {sockfd}
            /\ IF sockfd \in fds_open
               THEN EndStream
               ELSE UNCHANGED << conn, wire, sent, delivered, incoming_queue >>
       ELSE UNCHANGED << fds_open, fd_handlers, conn, wire, sent, delivered,
                         incoming_queue >>
    /\ main_pc' = IF colo_mode = COLO_MODE_PRIMARY
                  THEN "stop_signal" ELSE "idle"
    /\ UNCHANGED << colo_mode, sockfd, need_compare_ev, thread, tpc,
                    colo_do_checkpoint, colo_conn_hash, nframes, nstarts,
                    last_ret >>
    /\ UNCHANGED key_vars

\* qemu_event_set(&s->need_compare_ev) in colo_proxy_stop_one
colo_proxy_stop_signal ==
    /\ main_pc = "stop_signal"
    /\ need_compare_ev' = TRUE
    /\ main_pc' = "stop_join"
    /\ UNCHANGED << engine_vars, tpc, colo_do_checkpoint, queue_vars,
                    stream_vars, last_ret >>
    /\ UNCHANGED key_vars

\* qemu_thread_join(&s->thread) on a thread that was created and not yet
\* joined: returns once the thread has exited
qemu_thread_join ==
    /\ main_pc = "stop_join"
    /\ IF thread = 0 THEN FALSE ELSE tpc[thread] = "exited"
    /\ tpc' = [tpc EXCEPT ![thread] = "joined"]
    /\ main_pc' = "idle"
    /\ UNCHANGED << engine_vars, need_compare_ev, colo_do_checkpoint,
                    queue_vars, stream_vars, last_ret >>
    /\ UNCHANGED key_vars

\* qemu_thread_join on a handle that names no joinable thread (never
\* created, or joined before) is undefined: pthread_join may return, which
\* is this step; or report an error, on which qemu_thread_join ends the
\* process, or never return, and then the main loop takes no further step
qemu_thread_join_invalid ==
    /\ main_pc = "stop_join"
    /\ IF thread = 0 THEN TRUE ELSE tpc[thread] = "joined"
    /\ main_pc' = "idle"
    /\ UNCHANGED << engine_vars, tpc, need_compare_ev, colo_do_checkpoint,
                    queue_vars, stream_vars, last_ret >>
    /\ UNCHANGED key_vars

(***************************************************************************)
(* The comparison thread: while (status == RUNNING) { wait; reset; scan }. *)
(* Its steps: the first loop test; the wait with the reset; the scan with  *)
(* the loop test that follows it.                                          *)
(***************************************************************************)
LoopTest == IF status = COLO_PROXY_RUNNING THEN "wait" ELSE "exited"

compare_thread_check(t) ==
   
    /\ tpc[t] = "check"
    /\ tpc' = [tpc EXCEPT ![t] = LoopTest]
    /\ UNCHANGED << engine_vars, need_compare_ev, colo_do_checkpoint,
                    queue_vars, stream_vars, main_pc, last_ret >>
    /\ UNCHANGED key_vars

compare_thread_wait(t) ==
   
    /\ tpc[t] = "wait"
    /\ need_compare_ev
    /\ need_compare_ev' = FALSE
    /\ tpc' = [tpc EXCEPT ![t] = "scan"]
    /\ UNCHANGED << engine_vars, colo_do_checkpoint, queue_vars, stream_vars,
                    main_pc, last_ret >>
    /\ UNCHANGED key_vars

compare_thread_scan(t) ==
   
    /\ tpc[t] = "scan"
    /\ LET drained == [k \in DOMAIN colo_conn_hash |->
                          DrainConn(colo_conn_hash[k])]
       IN  /\ colo_conn_hash' = drained
           /\ colo_do_checkpoint' =
                  IF \E k \in DOMAIN drained : Diverged(drained[k])
                  THEN colo_proxy_notify_checkpoint
                  ELSE colo_do_checkpoint
    /\ tpc' = [tpc EXCEPT ![t] = LoopTest]
    /\ UNCHANGED << engine_vars, need_compare_ev, incoming_queue, stream_vars,
                    main_pc, last_ret >>
    /\ UNCHANGED key_vars

(***************************************************************************)
(* The transport.  The peer engine runs the same colo_proxy_sock_send; the *)
(* bytes it writes reach this engine's socket as `wire'.                   *)
(***************************************************************************)
\* the peer closes the connection or the network drops it
ConnectionLoss ==
   
    /\ conn = "up"
    /\ conn' = "lost"
    /\ UNCHANGED << engine_vars, need_compare_ev, tpc, colo_do_checkpoint,
                    queue_vars, wire, sent, delivered, nframes,
                    main_pc, last_ret >>
    /\ UNCHANGED key_vars

\* colo_proxy_sock_send(nf, iov, iovcnt) on the peer.  On a lost connection
\* the first iov_send fails; `breaks' says that the connection breaks
\* between the two iov_send calls, the prefix being on the stream already.
colo_proxy_sock_send(buf, breaks) ==
    LET size == iov_size(buf)
    IN 
        /\ conn \in {"up", "lost"}
        /\ IF size = 0
           THEN /\ last_ret' = <<"colo_proxy_sock_send", 0>>
                /\ UNCHANGED << conn, wire, sent, nframes >>
           ELSE IF conn = "lost"
           THEN /\ last_ret' = <<"colo_proxy_sock_send", -1>>
                /\ UNCHANGED << conn, wire, sent, nframes >>
           ELSE /\ nframes < MaxFrames
                /\ nframes' = nframes + 1
                /\ IF breaks
                   THEN /\ wire' = wire \o EncodeLen(size)
                        /\ last_ret' = <<"colo_proxy_sock_send", -1>>
                        /\ conn' = "lost"
                        /\ UNCHANGED sent
                   ELSE /\ wire' = wire \o EncodeLen(size) \o buf
                        /\ last_ret' = <<"colo_proxy_sock_send", size>>
                        /\ sent' = Append(sent, buf)
                        /\ UNCHANGED conn
        /\ UNCHANGED << engine_vars, need_compare_ev, tpc, colo_do_checkpoint,
                        queue_vars, delivered, main_pc >>
        /\ UNCHANGED key_vars

\* iov_recv(s->sockfd, iov, 1, 0, bytes) on the blocking socket: it returns
\* once `bytes' bytes were read or the stream ended; what was not read keeps
\* the buffer's initial zeros
iov_recv_ready(stream, bytes) == Len(stream) >= bytes \/ conn = "lost"
iov_recv_data(stream, bytes) ==
    Take(stream, bytes) \o Zeros(bytes - Len(Take(stream, bytes)))

\* colo_proxy_enqueue_secondary_packet(nf, buf, len)
colo_proxy_enqueue_secondary_packet(buf) ==
    IF HasFlowKey(buf)
    THEN /\ colo_conn_hash' = enqueue_secondary(colo_conn_hash, buf)
         /\ need_compare_ev' = TRUE
    ELSE UNCHANGED << colo_conn_hash, need_compare_ev >>

\* qemu_net_queue_send(s->incoming_queue, nf->netdev, 0, buf, len, NULL)
qemu_net_queue_send(buf) == incoming_queue' = Append(incoming_queue, buf)

\* Deliver with the test of the mode inverted
Deliver_swapped(buf) ==
    /\ IF colo_mode # COLO_MODE_PRIMARY
       THEN /\ colo_proxy_enqueue_secondary_packet(buf)
            /\ UNCHANGED incoming_queue
       ELSE /\ qemu_net_queue_send(buf)
            /\ UNCHANGED << colo_conn_hash, need_compare_ev >>
    /\ delivered' = Append(delivered, buf)

\* what colo_proxy_sock_receive does with a payload it has read
Deliver(buf) ==
    /\ IF colo_mode = COLO_MODE_PRIMARY
       THEN /\ colo_proxy_enqueue_secondary_packet(buf)
            /\ UNCHANGED incoming_queue
       ELSE /\ qemu_net_queue_send(buf)
            /\ UNCHANGED << colo_conn_hash, need_compare_ev >>
    /\ delivered' = Append(delivered, buf)

\* the length prefix the next colo_proxy_sock_receive reads
NextLen == DecodeLen(iov_recv_data(wire, SIZE_LEN))
\* the test of the length with 0 let through
AcceptLen_nonneg(len) == len >= 0 /\ len < NET_BUFSIZE
AcceptLen(len) == len > 0 /\ len < NET_BUFSIZE

\* the fd callback: sockfd is readable (data or end of stream)
colo_proxy_sock_receive ==
    /\ MainIdle
    /\ sockfd \in fd_handlers /\ sockfd \in fds_open
    /\ conn \in {"up", "lost"}
    /\ wire # << >> \/ conn = "lost"
    /\ iov_recv_ready(wire, SIZE_LEN)
    /\ LET len == NextLen
           rest == Drop(wire, SIZE_LEN)
       IN  IF AcceptLen(len)
           THEN /\ iov_recv_ready(rest, len)
                /\ wire' = Drop(rest, len)
                /\ Deliver(iov_recv_data(rest, len))
           ELSE /\ wire' = rest
                /\ UNCHANGED << queue_vars, need_compare_ev, delivered >>
    /\ UNCHANGED << engine_vars, tpc, colo_do_checkpoint, conn, sent, nframes,
                    main_pc, last_ret >>
    /\ UNCHANGED key_vars

\* the same hook without the test of the status
colo_proxy_receive_iov_any_status(buf) ==
    /\ MainIdle
    /\ last_ret' = << "colo_proxy_receive_iov", iov_size(buf) >>
    /\ UNCHANGED << engine_vars, need_compare_ev, tpc, colo_do_checkpoint,
                    queue_vars, stream_vars, main_pc >>
    /\ UNCHANGED key_vars

\* the filter's receive_iov hook, called for every packet of the NIC
colo_proxy_receive_iov(buf) ==
    /\ MainIdle
    /\ last_ret' = << "colo_proxy_receive_iov",
                    IF status # COLO_PROXY_RUNNING THEN 0 ELSE iov_size(buf) >>
    /\ UNCHANGED << engine_vars, need_compare_ev, tpc, colo_do_checkpoint,
                    queue_vars, stream_vars, main_pc >>
    /\ UNCHANGED key_vars

\* colo_proxy_query_checkpoint(): a read of the file-wide flag, called by
\* the checkpoint code from its own thread at any time; the bool returned is
\* recorded as 1 / 0
colo_proxy_query_checkpoint_clearing ==
    /\ last_ret' = << "colo_proxy_query_checkpoint",
                      IF colo_do_checkpoint THEN 1 ELSE 0 >>
    /\ colo_do_checkpoint' = FALSE
    /\ UNCHANGED << engine_vars, need_compare_ev, tpc, queue_vars,
                    stream_vars, main_pc >>
    /\ UNCHANGED key_vars

colo_proxy_query_checkpoint ==
    /\ last_ret' = << "colo_proxy_query_checkpoint",
                      IF colo_do_checkpoint THEN 1 ELSE 0 >>
    /\ UNCHANGED << engine_vars, need_compare_ev, tpc, colo_do_checkpoint,
                    queue_vars, stream_vars, main_pc >>
    /\ UNCHANGED key_vars

\* colo_proxy_cleanup(nf), the filter's finalizer: close(s->sockfd) whatever
\* sockfd holds, s->sockfd = -1, qemu_event_destroy.  The handler is not
\* unregistered.  The instance is gone afterwards: no main-loop code runs on
\* it any more.
colo_proxy_cleanup ==
    /\ MainIdle
    /\ fds_open' = fds_open \ {sockfd}
    /\ IF sockfd \in fds_open
       THEN EndStream
       ELSE UNCHANGED << conn, wire, sent, delivered, incoming_queue >>
    /\ sockfd' = -1
    /\ need_compare_ev' = FALSE
    /\ main_pc' = "finalized"
    /\ UNCHANGED << colo_mode, status, thread, tpc, colo_do_checkpoint,
                    colo_conn_hash, fd_handlers, nframes, nstarts, last_ret >>
    /\ UNCHANGED key_vars

Next ==
    \/ \E a \in BOOLEAN, d \in BOOLEAN : colo_proxy_setup(a, d)
    \/ \E m \in Modes : colo_proxy_set_mode(m)
    \/ \E m \in Modes, env \in {"ok", "connect_fail", "listen_fail", "accept_fail"} :
           colo_proxy_start(m, env)
    \/ \E m \in Modes : colo_proxy_stop(m)
    \/ colo_proxy_stop_signal
    \/ qemu_thread_join
    \/ qemu_thread_join_invalid
    \/ \E t \in ThreadIds : compare_thread_check(t)
    \/ \E t \in ThreadIds : compare_thread_wait(t)
    \/ \E t \in ThreadIds : compare_thread_scan(t)
    \/ ConnectionLoss
    \/ \E b \in Buffers, f \in BOOLEAN : colo_proxy_sock_send(b, f)
    \/ colo_proxy_sock_receive
    \/ \E b \in Buffers : colo_proxy_receive_iov(b)
    \/ colo_proxy_query_checkpoint
    \/ colo_proxy_cleanup

Spec == Init /\ [][Next]_vars

(***************************************************************************)
(* The registry's callbacks on their own: colo_conn_hash is created with   *)
(* connection_key_hash and connection_key_equal, and GLib calls them with  *)
(* the key looked up and a key stored.  The engine does not move.          *)
(***************************************************************************)
KeyInit ==
    /\ EngineInit
    /\ colo_mode = COLO_MODE_PRIMARY
    /\ key_a \in ConnectionKey
    /\ key_b \in ConnectionKey
    /\ hash_a = << >>
    /\ hash_b = << >>
    /\ equal_ret = -1

KeyHashA ==
    /\ hash_a' = connection_key_hash(key_a)
    /\ UNCHANGED << proxy_vars, key_a, key_b, hash_b, equal_ret >>

KeyHashB ==
    /\ hash_b' = connection_key_hash(key_b)
    /\ UNCHANGED << proxy_vars, key_a, key_b, hash_a, equal_ret >>

KeyEqual ==
    /\ equal_ret' = IF connection_key_equal(key_a, key_b) THEN 1 ELSE 0
    /\ UNCHANGED << proxy_vars, key_a, key_b, hash_a, hash_b >>

KeyNext == KeyHashA \/ KeyHashB \/ KeyEqual

KeySpec == KeyInit /\ [][KeyNext]_vars

(***************************************************************************)
(* Properties.                                                             *)
(***************************************************************************)

\* C1: the status is monotonic along NotStarted -> Running -> Done: once the
\* status is Done it does not become Running again (no step of the model
\* re-initializes the instance, so every such step is one the claim forbids;
\* in particular colo_proxy_start after colo_proxy_stop must not do it).
C1_DoneNeverRunning ==
    [][status = COLO_PROXY_DONE => status' # COLO_PROXY_RUNNING]_vars

\* the comparison thread that s->thread names exists and was not joined
TaskLive == IF thread = 0 THEN FALSE ELSE tpc[thread] \in {"check", "wait", "scan"}

\* C2: when colo_proxy_stop runs on a Primary engine whose comparison task is
\* running, the task is never left blocked on the wake event: stop never
\* waits in qemu_thread_join for a task that waits for an event that is not
\* set (nothing sets the event while the main loop is inside the join).
C2_TaskNeverStranded ==
    ~(main_pc = "stop_join" /\ TaskLive /\ tpc[thread] = "wait" /\ ~need_compare_ev)

\* a step in which colo_proxy_start returned -1
FailedStart ==
    /\ last_ret' = <<"colo_proxy_start", -1>>
    /\ last_ret # <<"colo_proxy_start", -1>>

\* C3: a colo_proxy_start whose transport cannot be established returns -1 and
\* leaves the filter with status not Running, sockfd unchanged, no receive
\* handler registered and no comparison thread created.
C3_FailedStartLeavesIdle ==
    [][FailedStart =>
          /\ status' # COLO_PROXY_RUNNING
          /\ sockfd' = sockfd
          /\ sockfd' \notin fd_handlers'
          /\ tpc' = tpc]_vars

\* C4: once colo_do_checkpoint is true, no operation resets it to false (the
\* file has no acknowledge operation).
C4_FlagStaysSet ==
    [][colo_do_checkpoint => colo_do_checkpoint']_vars

\* the callback finds a whole length prefix that declares more than the
\* receive side accepts
OversizeFrame == Len(wire) >= SIZE_LEN /\ NextLen >= NET_BUFSIZE

\* C5: a frame whose length prefix declares NET_BUFSIZE bytes or more is
\* rejected as a transport error: nothing is delivered or enqueued, the bytes
\* of the frame are discarded with it, and the engine becomes Done.
C5_OversizeIsFatal ==
    [][(colo_proxy_sock_receive /\ OversizeFrame) =>
          /\ delivered' = delivered
          /\ UNCHANGED queue_vars
          /\ wire' = Drop(wire, SIZE_LEN + NextLen)
          /\ status' = COLO_PROXY_DONE]_vars

\* the callback runs into the end of the stream: the prefix or the payload it
\* asks for is not all there and the connection is lost
HitsEndOfStream ==
    /\ conn = "lost"
    /\ \/ Len(wire) < SIZE_LEN
       \/ AcceptLen(NextLen) /\ Len(Drop(wire, SIZE_LEN)) < NextLen

\* C6: loss of the connection while Running is fatal: a receive that meets
\* the end of the stream moves the engine to Done.
C6_ConnectionLossIsFatal ==
    [][(colo_proxy_sock_receive /\ status = COLO_PROXY_RUNNING /\ HitsEndOfStream)
          => status' = COLO_PROXY_DONE]_vars

\* C7: transport round trip: while the unread stream holds only frames that
\* colo_proxy_sock_send accepted, every callback that reads a length prefix
\* delivers the next accepted payload, whole and byte-identical, lengths at
\* and above NET_BUFSIZE - 1 included.
C7_RoundTrip ==
    [][(colo_proxy_sock_receive /\ Len(wire) >= SIZE_LEN
            /\ IsSuffix(wire, Stream(sent)))
          => /\ Len(delivered) < Len(sent)
             /\ delivered' = SubSeq(sent, 1, Len(delivered) + 1)]_vars

\* the payload the callback reads, when it accepts the length prefix
ReadPayload == iov_recv_data(Drop(wire, SIZE_LEN), NextLen)

\* C8: routing of a received frame depends only on the mode.  Primary: the
\* payload goes to the tail of its flow's secondary_list, the flow's
\* primary_list and the incoming queue are untouched and the comparison task
\* is woken.  Secondary: the payload goes to the incoming queue and the
\* connection table is untouched.
C8_RoutingByMode ==
    [][(colo_proxy_sock_receive /\ AcceptLen(NextLen)) =>
          IF colo_mode = COLO_MODE_PRIMARY
          THEN /\ incoming_queue' = incoming_queue
               /\ HasFlowKey(ReadPayload) =>
                     LET k == FlowKey(ReadPayload)
                         old == IF k \in DOMAIN colo_conn_hash
                                THEN colo_conn_hash[k] ELSE NewConnection
                     IN  /\ k \in DOMAIN colo_conn_hash'
                         /\ colo_conn_hash'[k].secondary_list =
                                Append(old.secondary_list, ReadPayload)
                         /\ colo_conn_hash'[k].primary_list = old.primary_list
                         /\ need_compare_ev'
          ELSE /\ colo_conn_hash' = colo_conn_hash
               /\ incoming_queue' = Append(incoming_queue, ReadPayload)]_vars

\* C8 witness: a Primary engine has put a received payload on its flow's
\* secondary_list and nothing on the incoming queue
C8_Witness ==
    /\ colo_mode = COLO_MODE_PRIMARY
    /\ delivered # << >>
    /\ incoming_queue = << >>
    /\ \E k \in DOMAIN colo_conn_hash :
           /\ colo_conn_hash[k].secondary_list # << >>
           /\ colo_conn_hash[k].secondary_list[1] = delivered[1]

\* C9: the mode is immutable while the status is Running.
C9_ModeImmutableWhileRunning ==
    [][(status = COLO_PROXY_RUNNING /\ status' = COLO_PROXY_RUNNING)
          => colo_mode' = colo_mode]_vars

\* C10: a buffer with no flow key that arrives at a Running engine is passed
\* through (colo_proxy_receive_iov returns 0, not the size), no Connection is
\* created and no queue changes.
C10_MalformedPassedThrough ==
    [][\A b \in Buffers :
          (colo_proxy_receive_iov(b) /\ status = COLO_PROXY_RUNNING /\ ~HasFlowKey(b))
             => /\ last_ret' = <<"colo_proxy_receive_iov", 0>>
                /\ UNCHANGED queue_vars]_vars

\* the buffer colo_proxy_receive_iov reported as consumed last (its size is
\* the value returned)
LastConsumed == CHOOSE b \in Buffers : iov_size(b) = last_ret[2]

\* the divergence scenario: a Running Primary engine has consumed a guest
\* packet on a flow whose secondary_list holds a different packet at its head
DivergenceOn(k) ==
    /\ status = COLO_PROXY_RUNNING
    /\ colo_mode = COLO_MODE_PRIMARY
    /\ last_ret[1] = "colo_proxy_receive_iov"
    /\ last_ret[2] >= MinHdrLen
    /\ k = FlowKey(LastConsumed)
    /\ k \in DOMAIN colo_conn_hash
    /\ colo_conn_hash[k].secondary_list # << >>
    /\ Head(colo_conn_hash[k].secondary_list) # LastConsumed

C12_QueryIsPureRead ==
    /\ [][colo_proxy_query_checkpoint =>
             /\ last_ret' = << "colo_proxy_query_checkpoint",
                               IF colo_do_checkpoint THEN 1 ELSE 0 >>
             /\ colo_do_checkpoint' = colo_do_checkpoint
             /\ UNCHANGED << engine_vars, need_compare_ev, tpc, queue_vars,
                             stream_vars, main_pc >>]_vars
    /\ [](ENABLED colo_proxy_query_checkpoint)

\* C12 witness: a poll has returned true while the flag is (still) true
C12_Witness ==
    /\ last_ret = <<"colo_proxy_query_checkpoint", 1>>
    /\ colo_do_checkpoint

\* C13: comparison is primary-side only.  In every state of an engine whose
\* mode is Secondary no comparison task exists (none created and still
\* running), and the engine is not inside the part of stop that wakes and
\* joins one.
C13_SecondaryHasNoTask ==
    colo_mode = COLO_MODE_SECONDARY =>
        /\ \A t \in ThreadIds : tpc[t] \notin {"check", "wait", "scan"}
        /\ main_pc \notin {"stop_signal", "stop_join"}

\* C14: a well-formed packet (one with a flow key) handed to
\* colo_proxy_receive_iov of a Running engine and reported as consumed (the
\* size is returned) is appended to the tail of its flow's primary_list or
\* secondary_list, and the comparison task is signalled.
C14_ConsumedIsQueued ==
    [][\A b \in Buffers :
          (/\ colo_proxy_receive_iov(b)
           /\ status = COLO_PROXY_RUNNING
           /\ HasFlowKey(b)
           /\ last_ret' = <<"colo_proxy_receive_iov", iov_size(b)>>)
             => LET k == FlowKey(b)
                    old == IF k \in DOMAIN colo_conn_hash
                           THEN colo_conn_hash[k] ELSE NewConnection
                IN  /\ k \in DOMAIN colo_conn_hash'
                    /\ \/ colo_conn_hash'[k].primary_list =
                              Append(old.primary_list, b)
                       \/ colo_conn_hash'[k].secondary_list =
                              Append(old.secondary_list, b)
                    /\ need_compare_ev']_vars

\* C15: connection_key_equal returns true iff all five fields of the two
\* keys are equal, field by field with no exchange of source and
\* destination; and when it returns true, connection_key_hash gives the same
\* value for both keys.
C15_KeyEqualAndHash ==
    /\ equal_ret # -1 =>
          (equal_ret = 1 <=> /\ key_a.src = key_b.src
                             /\ key_a.dst = key_b.dst
                             /\ key_a.src_port = key_b.src_port
                             /\ key_a.dst_port = key_b.dst_port
                             /\ key_a.ip_proto = key_b.ip_proto)
    /\ (equal_ret = 1 /\ hash_a # << >> /\ hash_b # << >>) => hash_a = hash_b

\* C15 witness: two keys were compared equal and both were hashed, to the
\* same value
C15_Witness ==
    /\ equal_ret = 1
    /\ hash_a # << >>
    /\ hash_b = hash_a

\* C16: a zero-length payload is a no-op for the transport.  A
\* colo_proxy_sock_send of an empty buffer returns 0 and writes nothing: the
\* stream, the record of what was sent and the connection are as before.  A
\* colo_proxy_sock_receive that reads a length of 0 delivers nothing, queues
\* nothing, wakes nobody and takes only the length prefix off the stream.
C16_EmptyPayloadIsNoOp ==
    [][/\ (\E f \in BOOLEAN : colo_proxy_sock_send(<< >>, f)) =>
              /\ last_ret' = <<"colo_proxy_sock_send", 0>>
              /\ UNCHANGED << wire, sent, conn, nframes, delivered,
                              queue_vars >>
       /\ (colo_proxy_sock_receive /\ NextLen = 0) =>
              /\ UNCHANGED << delivered, queue_vars, need_compare_ev >>
              /\ wire' = Drop(wire, SIZE_LEN)]_vars

\* C16 witness: an empty buffer was sent (0 returned) on a connection that
\* carries a frame, and the stream is still exactly that frame
C16_Witness ==
    /\ last_ret = <<"colo_proxy_sock_send", 0>>
    /\ conn = "up"
    /\ sent # << >>
    /\ wire = Stream(sent)

\* C17: when the status is not Running (NotStarted, or Done), a call of
\* colo_proxy_receive_iov returns 0 and changes nothing: no Connection is
\* created, no queue changes, nothing goes onto the transport, the
\* comparison task is not signalled, and status, mode and socket stay.
C17_NotRunningPassesThrough ==
    [][\A b \in Buffers :
          (colo_proxy_receive_iov(b) /\ status # COLO_PROXY_RUNNING)
             => /\ last_ret' = <<"colo_proxy_receive_iov", 0>>
                /\ UNCHANGED << engine_vars, need_compare_ev, tpc,
                                colo_do_checkpoint, queue_vars, stream_vars,
                                main_pc >>]_vars

\* C17 witness: the hook has returned 0 on an engine that was never started
C17_Witness ==
    /\ status = COLO_PROXY_NONE
    /\ last_ret = <<"colo_proxy_receive_iov", 0>>

\* comparison threads that were created and have not exited
LiveThreads == {t \in ThreadIds : tpc[t] \in {"check", "wait", "scan"}}

\* C18: whatever sequence of starts and stops is applied to the engine, at
\* most one comparison thread exists and at most one transport socket is
\* open with the receive handler registered.
C18_OneThreadOneSocket ==
    /\ Cardinality(LiveThreads) <= 1
    /\ Cardinality(fds_open \cap fd_handlers) <= 1

\* C19: whenever sockfd >= 0 it names a descriptor this engine still has
\* open, so that no later close or unregister (a second stop, the finalizer)
\* acts on a descriptor number the engine has closed already.
C19_SockfdIsOpen == sockfd >= 0 => sockfd \in fds_open

\* C20: stop in Primary mode waits only for a thread that a successful start
\* created and that was not joined before: the join of stop is never reached
\* with a handle that names no thread or a thread already joined.
C20_JoinOnlyLiveThread ==
    main_pc = "stop_join" =>
        (IF thread = 0 THEN FALSE ELSE tpc[thread] # "joined")

====
